---- MODULE Spec2Model ----
(***************************************************************************)
(* Facility-Planning-Tool.py as a state machine.                           *)
(*                                                                         *)
(* The script is straight-line code: at module load it builds the task     *)
(* list of the concurrent workflow (which calls the four agents, one after *)
(* another), adds it to the runner, and under __main__ runs the sequential *)
(* workflow, formats the recommendation, prints it and writes it to        *)
(* rehab_facility_recommendation.txt.  Strings are sequences of tokens.    *)
(* The process may be run again (NewRun); the report file outlives it.     *)
(***************************************************************************)
EXTENDS Naturals, Sequences, FiniteSets, TLC

\* ------------------------------------------------------------------ bounds
MaxRuns == 2          \* processes run one after another
MaxLen == 1           \* longest text the sequential workflow returns
MaxBedrooms == 3      \* largest bedroom count handed to a stub
MaxScoreIn == 11      \* largest neighborhood score in a stub's input record

Alphabet == {"a", "b"}
AgentOutputs == {"x", "y"}
Locations == {"Miami", "South Florida", ""}
Prices == {0, 1800000, 2000000}

RECURSIVE StringsUpTo(_)
StringsUpTo(n) ==
    IF n = 0 THEN {<< >>}
    ELSE LET S == StringsUpTo(n - 1)
         IN S \cup {Append(s, c) : s \in {t \in S : Len(t) = n - 1}, c \in Alphabet}

\* what sequential_workflow.run may return
Results == StringsUpTo(MaxLen)

None == <<"<None>">>

\* ------------------------------------------------------- program constants
Agents == {"search", "zoning", "community", "planning"}

\* RehabFacilityAgent.__init__: max_loops=5
agent_max_loops == 5

\* RehabFacilityAgent.__init__: long_term_memory=memory, the same module-level
\* ChromaDB object for every agent
long_term_memory(a) == "memory"

Stores == {long_term_memory(a) : a \in Agents}

agents_swapped == <<"zoning", "search", "community", "planning">>

\* SequentialWorkflow(agents=[...])
agents == <<"search", "zoning", "community", "planning">>

\* SequentialWorkflow(max_loops=1)
max_loops == 1

\* ConcurrentWorkflow(max_workers=4)
max_workers == 4

fanout_calls_swapped ==
    << [agent |-> "zoning", task |-> "Analyze zoning for 123 Palm Ave, Miami, FL"],
       [agent |-> "search", task |-> "Search for properties in Miami suitable for rehab facilities"],
       [agent |-> "community", task |-> "Assess community impact for 123 Palm Ave, Miami, FL"],
       [agent |-> "planning", task |-> "Plan facility layout for 123 Palm Ave, Miami, FL"] >>

\* the elements of the list literal handed to concurrent_workflow.add, in the
\* order Python evaluates them
fanout_calls ==
    << [agent |-> "search", task |-> "Search for properties in Miami suitable for rehab facilities"],
       [agent |-> "zoning", task |-> "Analyze zoning for 123 Palm Ave, Miami, FL"],
       [agent |-> "community", task |-> "Assess community impact for 123 Palm Ave, Miami, FL"],
       [agent |-> "planning", task |-> "Plan facility layout for 123 Palm Ave, Miami, FL"] >>

\* __main__: location, budget; find_rehab_facility_property: min_bedrooms=10
location == "South Florida"
budget == 2000000
min_bedrooms == 10

Program_openFirst ==
    <<"tasks", "add", "open", "find", "print_header", "print_rec", "write", "close">>

Program_twoWrites ==
    <<"tasks", "add", "find", "print_header", "print_rec", "open", "write", "write", "close">>

\* the statements of the module body and of __main__, in program order
Program ==
    <<"tasks", "add", "find", "print_header", "print_rec", "open", "write", "close">>

Caught == "running"

\* no try/except anywhere: an exception reaches the top level and ends the process
Uncaught == "failed"

\* ------------------------------------------------------------- pure helpers
Instruction_withFanout(loc, bud, beds, fanout) ==
    <<"Find and analyze properties in ", loc,
      " for a rehab facility with a budget of $", ToString(bud),
      " and at least ", ToString(beds), " bedrooms">> \o fanout

\* the f-string handed to sequential_workflow.run; `fanout` is the module-level
\* task list, which the function can see and does not read
Instruction(loc, bud, beds, fanout) ==
    <<"Find and analyze properties in ", loc,
      " for a rehab facility with a budget of $", ToString(bud),
      " and at least ", ToString(beds), " bedrooms">>

Recommendation_bare(r) == r

\* return f"Recommendation based on analysis: {result}"
Recommendation(r) == <<"Recommendation based on analysis: ">> \o r

open_rplus(content) == [content |-> content, pos |-> 0]

\* open(name, "w"): the file is created or truncated, the position is 0
open_w(content) == [content |-> << >>, pos |-> 0]

\* f.write(text) at position pos: what lies under the text is replaced, what lies
\* beyond it stays
WriteAt(content, pos, text) ==
    LET n == IF Len(content) > pos + Len(text) THEN Len(content) ELSE pos + Len(text)
    IN [i \in 1..n |->
          IF i > pos /\ i <= pos + Len(text) THEN text[i - pos] ELSE content[i]]

\* a file left by an earlier version of the tool, longer than any new report
OldReport == <<"Recommendation based on analysis: ">> \o [i \in 1..(MaxLen + 1) |-> "z"]

InitialFiles == {<< >>, OldReport}

\* -------------------------------------------------------------------- state
VARIABLES
    run,                  \* number of the process run
    status,               \* "running", "done" (exit 0) or "failed" (uncaught exception)
    pc,                   \* index into Program of the statement being executed
    call,                 \* the agent.run call in progress, or NoCall
    tasks,                \* values returned so far by the calls of the task list
    concurrent_workflow,  \* the runner: its worker count and the tasks added to it
    stage,                \* agent runs the sequential workflow has completed
    instruction,          \* the string handed to sequential_workflow.run
    result,               \* what sequential_workflow.run returned
    recommendation,       \* what find_rehab_facility_property returned
    stdout,               \* the lines printed
    fh,                   \* the handle f of the with-block
    file,                 \* contents of rehab_facility_recommendation.txt
    file_at_start,        \* its contents when the process started
    store_access,         \* per memory store, the agents that have used it
    trace,                \* the calls made by this process, in order
    prev,                 \* what the last successful process run did
    tool_in,              \* the arguments of the last stub call
    tool_out              \* what the last stub call returned

procvars ==
    <<status, pc, call, tasks, concurrent_workflow, stage, instruction, result,
      recommendation, stdout, fh, store_access, trace>>

mainvars == <<run, procvars, file, file_at_start, prev>>

toolvars == <<tool_in, tool_out>>

vars == <<mainvars, toolvars>>

NoCall == [by |-> "none", agent |-> "none", loops |-> 0]

NoHandle == [open |-> FALSE, pos |-> 0]

NoPrev ==
    [valid |-> FALSE, tasks |-> << >>, result |-> None, instruction |-> None,
     recommendation |-> None, file |-> << >>]

NoTool == [tool |-> "none"]

Event(by, op, ev) == [by |-> by, op |-> op, ev |-> ev, thread |-> "main"]

\* the state of a freshly started interpreter, before the first statement
ProcInit ==
    /\ status = "running"
    /\ pc = 1
    /\ call = NoCall
    /\ tasks = << >>
    /\ concurrent_workflow = [max_workers |-> max_workers, tasks |-> << >>, started |-> FALSE]
    /\ stage = 0
    /\ instruction = None
    /\ result = None
    /\ recommendation = None
    /\ stdout = << >>
    /\ fh = NoHandle
    /\ store_access = [s \in Stores |-> {}]
    /\ trace = << >>

Init ==
    /\ run = 1
    /\ ProcInit
    /\ file \in InitialFiles
    /\ file_at_start = file
    /\ prev = NoPrev
    /\ tool_in = NoTool
    /\ tool_out = NoTool

Stmt == IF pc <= Len(Program) THEN Program[pc] ELSE "exit"

Running(stmt) == status = "running" /\ Stmt = stmt

\* falling off the end of the script is exit code 0
Advance ==
    /\ pc' = pc + 1
    /\ status' = IF pc + 1 > Len(Program) THEN "done" ELSE status

\* an exception raised by the current statement
Raise(by, op) ==
    /\ status' = Uncaught
    /\ trace' = Append(trace, Event(by, op, "fail"))
    /\ call' = NoCall
    /\ fh' = NoHandle
    /\ pc' = pc

\* ------------------------------------------------ lines 256-262: the fan-out
\* An element of the task list is the call agent.run(...) itself: it is made
\* here, by the thread building the list, before concurrent_workflow.add.
FanoutStart ==
    /\ Running("tasks")
    /\ call = NoCall
    /\ Len(tasks) < Len(fanout_calls)
    /\ LET a == fanout_calls[Len(tasks) + 1].agent
       IN /\ call' = [by |-> "fanout", agent |-> a, loops |-> 0]
          /\ trace' = Append(trace, Event("fanout", a, "start"))
    /\ UNCHANGED <<run, status, pc, tasks, concurrent_workflow, stage, instruction,
                   result, recommendation, stdout, fh, file, file_at_start,
                   store_access, prev, toolvars>>

\* one loop of the running agent (at most max_loops=5 of them): a model call,
\* with the agent's long-term memory at hand
AgentLoop ==
    /\ status = "running"
    /\ call # NoCall
    /\ call.loops < agent_max_loops
    /\ call' = [call EXCEPT !.loops = @ + 1]
    /\ store_access' =
          [store_access EXCEPT ![long_term_memory(call.agent)] = @ \cup {call.agent}]
    /\ UNCHANGED <<run, status, pc, tasks, concurrent_workflow, stage, instruction,
                   result, recommendation, stdout, fh, file, file_at_start, trace,
                   prev, toolvars>>

\* the external model call fails inside agent.run
AgentFail ==
    /\ status = "running"
    /\ call # NoCall
    /\ Raise(call.by, call.agent)
    /\ UNCHANGED <<run, tasks, concurrent_workflow, stage, instruction, result,
                   recommendation, stdout, file, file_at_start, store_access, prev,
                   toolvars>>

FanoutReturn ==
    /\ status = "running"
    /\ call.by = "fanout"
    /\ call.loops >= 1
    /\ \E v \in AgentOutputs : tasks' = Append(tasks, v)
    /\ call' = NoCall
    /\ trace' = Append(trace, Event("fanout", call.agent, "return"))
    /\ IF Len(tasks) + 1 = Len(fanout_calls)
         THEN Advance
         ELSE UNCHANGED <<pc, status>>
    /\ UNCHANGED <<run, concurrent_workflow, stage, instruction, result,
                   recommendation, stdout, fh, file, file_at_start, store_access,
                   prev, toolvars>>

\* concurrent_workflow.add(tasks=[...]); the runner is never run afterwards
Add ==
    /\ Running("add")
    /\ concurrent_workflow' = [concurrent_workflow EXCEPT !.tasks = tasks]
    /\ trace' = Append(trace, Event("main", "add", "return"))
    /\ Advance
    /\ UNCHANGED <<run, call, tasks, stage, instruction, result, recommendation,
                   stdout, fh, file, file_at_start, store_access, prev, toolvars>>

\* ------------------------- lines 265-273 and 279: find_rehab_facility_property
\* sequential_workflow.run(instruction) runs its agents in list order,
\* max_loops times over
PipelineStart ==
    /\ Running("find")
    /\ call = NoCall
    /\ result = None
    /\ stage < Len(agents) * max_loops
    /\ instruction' = Instruction(location, budget, min_bedrooms, tasks)
    /\ LET a == agents[(stage % Len(agents)) + 1]
       IN /\ call' = [by |-> "pipeline", agent |-> a, loops |-> 0]
          /\ trace' = Append(trace, Event("pipeline", a, "start"))
    /\ UNCHANGED <<run, status, pc, tasks, concurrent_workflow, stage, result,
                   recommendation, stdout, fh, file, file_at_start, store_access,
                   prev, toolvars>>

PipelineReturn ==
    /\ status = "running"
    /\ call.by = "pipeline"
    /\ call.loops >= 1
    /\ stage' = stage + 1
    /\ \E v \in Results :
          result' = IF stage + 1 = Len(agents) * max_loops THEN v ELSE None
    /\ call' = NoCall
    /\ trace' = Append(trace, Event("pipeline", call.agent, "return"))
    /\ UNCHANGED <<run, status, pc, tasks, concurrent_workflow, instruction,
                   recommendation, stdout, fh, file, file_at_start, store_access,
                   prev, toolvars>>

\* return f"Recommendation based on analysis: {result}" and the assignment at 279
Format ==
    /\ Running("find")
    /\ result # None
    /\ recommendation' = Recommendation(result)
    /\ trace' = Append(trace, Event("main", "find", "return"))
    /\ Advance
    /\ UNCHANGED <<run, call, tasks, concurrent_workflow, stage, instruction, result,
                   stdout, fh, file, file_at_start, store_access, prev, toolvars>>

\* ------------------------------------------------------ lines 280-285: report
PrintHeader ==
    /\ Running("print_header")
    /\ stdout' = Append(stdout, <<"Final Property Recommendation:">>)
    /\ trace' = Append(trace, Event("main", "print_header", "return"))
    /\ Advance
    /\ UNCHANGED <<run, call, tasks, concurrent_workflow, stage, instruction, result,
                   recommendation, fh, file, file_at_start, store_access, prev,
                   toolvars>>

PrintRec ==
    /\ Running("print_rec")
    /\ stdout' = Append(stdout, recommendation)
    /\ trace' = Append(trace, Event("main", "print_rec", "return"))
    /\ Advance
    /\ UNCHANGED <<run, call, tasks, concurrent_workflow, stage, instruction, result,
                   recommendation, fh, file, file_at_start, store_access, prev,
                   toolvars>>

\* with open("rehab_facility_recommendation.txt", "w") as f
Open ==
    /\ Running("open")
    /\ LET o == open_w(file)
       IN /\ file' = o.content
          /\ fh' = [open |-> TRUE, pos |-> o.pos]
    /\ trace' = Append(trace, Event("main", "open", "return"))
    /\ Advance
    /\ UNCHANGED <<run, call, tasks, concurrent_workflow, stage, instruction, result,
                   recommendation, stdout, file_at_start, store_access, prev,
                   toolvars>>

\* open raises (no permission, no such directory): nothing is truncated
OpenFail ==
    /\ Running("open")
    /\ Raise("main", "open")
    /\ UNCHANGED <<run, tasks, concurrent_workflow, stage, instruction, result,
                   recommendation, stdout, file, file_at_start, store_access, prev,
                   toolvars>>

\* f.write(recommendation)
Write ==
    /\ Running("write")
    /\ fh.open
    /\ file' = WriteAt(file, fh.pos, recommendation)
    /\ fh' = [fh EXCEPT !.pos = @ + Len(recommendation)]
    /\ trace' = Append(trace, Event("main", "write", "return"))
    /\ Advance
    /\ UNCHANGED <<run, call, tasks, concurrent_workflow, stage, instruction, result,
                   recommendation, stdout, file_at_start, store_access, prev,
                   toolvars>>

\* the write raises (disk full, I/O error) after some of the text went out; the
\* with-block closes the file and the exception goes on
WriteFail ==
    /\ Running("write")
    /\ fh.open
    /\ \E k \in 0..(Len(recommendation) - 1) :
          file' = WriteAt(file, fh.pos, SubSeq(recommendation, 1, k))
    /\ Raise("main", "write")
    /\ UNCHANGED <<run, tasks, concurrent_workflow, stage, instruction, result,
                   recommendation, stdout, file_at_start, store_access, prev,
                   toolvars>>

\* leaving the with-block closes f; the script ends
Close ==
    /\ Running("close")
    /\ fh' = NoHandle
    /\ trace' = Append(trace, Event("main", "close", "return"))
    /\ Advance
    /\ UNCHANGED <<run, call, tasks, concurrent_workflow, stage, instruction, result,
                   recommendation, stdout, file, file_at_start, store_access, prev,
                   toolvars>>

\* the script is started again: a new interpreter, the same report file
NewRun ==
    /\ status \in {"done", "failed"}
    /\ run < MaxRuns
    /\ run' = run + 1
    /\ prev' = IF status = "done"
               THEN [valid |-> TRUE, tasks |-> tasks, result |-> result,
                     instruction |-> instruction,
                     recommendation |-> recommendation, file |-> file]
               ELSE prev
    /\ file_at_start' = file
    /\ status' = "running"
    /\ pc' = 1
    /\ call' = NoCall
    /\ tasks' = << >>
    /\ concurrent_workflow' =
          [max_workers |-> max_workers, tasks |-> << >>, started |-> FALSE]
    /\ stage' = 0
    /\ instruction' = None
    /\ result' = None
    /\ recommendation' = None
    /\ stdout' = << >>
    /\ fh' = NoHandle
    /\ store_access' = [s \in Stores |-> {}]
    /\ trace' = << >>
    /\ UNCHANGED <<file, toolvars>>

Next ==
    \/ FanoutStart
    \/ AgentLoop
    \/ AgentFail
    \/ FanoutReturn
    \/ Add
    \/ PipelineStart
    \/ PipelineReturn
    \/ Format
    \/ PrintHeader
    \/ PrintRec
    \/ Open
    \/ OpenFail
    \/ Write
    \/ WriteFail
    \/ Close
    \/ NewRun

Spec == Init /\ [][Next]_vars

\* ------------------------------------------------ lines 37-116: the stage stubs
ValidationError == [error |-> "ValidationError"]

\* PropertySchema(...): pydantic checks neighborhood_score against ge=1, le=10
PropertySchema(r) ==
    IF r.neighborhood_score >= 1 /\ r.neighborhood_score <= 10
    THEN r ELSE ValidationError

ZoningSchema(r) == r

\* CommunitySchema(...): both scores are checked against ge=1, le=10
CommunitySchema(r) ==
    IF /\ r.public_transport_score >= 1 /\ r.public_transport_score <= 10
       /\ r.recovery_friendly_score >= 1 /\ r.recovery_friendly_score <= 10
    THEN r ELSE ValidationError

PropertySearchTool_run_fromInput(loc, beds, price) ==
    << PropertySchema(
         [address |-> "123 Palm Ave, Miami, FL", total_bedrooms |-> beds,
          total_bathrooms |-> 10, common_areas |-> 3, price |-> price,
          square_footage |-> 5000, zoning_type |-> "Residential",
          proximity_to_medical |-> "1.2", neighborhood_score |-> 8]) >>

PropertySearchTool_run(loc, beds, price) ==
    << PropertySchema(
         [address |-> "123 Palm Ave, Miami, FL", total_bedrooms |-> 15,
          total_bathrooms |-> 10, common_areas |-> 3, price |-> 1800000,
          square_footage |-> 5000, zoning_type |-> "Residential",
          proximity_to_medical |-> "1.2", neighborhood_score |-> 8]) >>

ZoningAnalysisTool_run(property_data) ==
    ZoningSchema(
      [allowed_use |-> TRUE, max_occupancy |-> 20,
       parking_requirements |-> "1 space per 4 beds",
       special_permits_needed |-> <<"Group Home Permit">>])

CommunityAssessmentTool_run(property_data) ==
    CommunitySchema(
      [crime_rate |-> "0.02", proximity_to_services |-> "1.5",
       public_transport_score |-> 7, recovery_friendly_score |-> 8])

FacilityPlanningTool_run(property_data) ==
    [optimal_capacity |-> 20, estimated_renovation_cost |-> 250000,
     renovation_timeline_months |-> 6,
     key_features |-> <<"Group therapy room", "Individual counseling offices",
                        "Meditation garden">>]

\* the property records a stub may be handed: any caller, so not only valid ones
PropertyInputs ==
    [address : {"123 Palm Ave, Miami, FL"}, total_bedrooms : 0..MaxBedrooms,
     total_bathrooms : {10}, common_areas : {3}, price : {1800000},
     square_footage : {5000}, zoning_type : {"Residential", "Commercial"},
     proximity_to_medical : {"1.2"}, neighborhood_score : 0..MaxScoreIn]

CallPropertySearch ==
    \E loc \in Locations, beds \in 0..MaxBedrooms, price \in Prices :
        /\ tool_in' = [tool |-> "PropertySearchTool", location |-> loc,
                       min_bedrooms |-> beds, max_price |-> price]
        /\ tool_out' = [tool |-> "PropertySearchTool",
                        value |-> PropertySearchTool_run(loc, beds, price)]
        /\ UNCHANGED mainvars

CallZoningAnalysis ==
    \E pd \in PropertyInputs :
        /\ tool_in' = [tool |-> "ZoningAnalysisTool", property_data |-> pd]
        /\ tool_out' = [tool |-> "ZoningAnalysisTool",
                        value |-> ZoningAnalysisTool_run(pd)]
        /\ UNCHANGED mainvars

CallCommunityAssessment ==
    \E pd \in PropertyInputs :
        /\ tool_in' = [tool |-> "CommunityAssessmentTool", property_data |-> pd]
        /\ tool_out' = [tool |-> "CommunityAssessmentTool",
                        value |-> CommunityAssessmentTool_run(pd)]
        /\ UNCHANGED mainvars

CallFacilityPlanning ==
    \E pd \in PropertyInputs :
        /\ tool_in' = [tool |-> "FacilityPlanningTool", property_data |-> pd]
        /\ tool_out' = [tool |-> "FacilityPlanningTool",
                        value |-> FacilityPlanningTool_run(pd)]
        /\ UNCHANGED mainvars

StubNext ==
    \/ CallPropertySearch
    \/ CallZoningAnalysis
    \/ CallCommunityAssessment
    \/ CallFacilityPlanning

\* the stubs called directly, any number of times, with any arguments
SpecStubs == Init /\ [][StubNext]_vars

\* ------------------------------------------------------------------- claims
EventsBy(by) == SelectSeq(trace, LAMBDA e : e.by = by)

Count(seq, P(_)) == Cardinality({i \in 1..Len(seq) : P(seq[i])})

\* the events of four calls made one after another, each finished before the
\* next starts, in the order search, zoning, community, planning; a failure
\* ends the sequence
InStageOrder(p) ==
    LET order == <<"search", "zoning", "community", "planning">>
    IN /\ Len(p) <= 8
       /\ \A i \in 1..Len(p) :
             /\ p[i].op = order[(i + 1) \div 2]
             /\ (i % 2 = 1) => p[i].ev = "start"
             /\ (i % 2 = 0) => p[i].ev \in {"return", "fail"}
             /\ (p[i].ev = "fail") => i = Len(p)

\* C1: in every run of the sequential pipeline the four stages are invoked in
\* the order search, zoning, community, planning, each exactly once, none
\* starting before the previous one has finished, none skipped or reordered.
C1_PipelineOrder ==
    LET p == EventsBy("pipeline")
    IN /\ InStageOrder(p)
       /\ (result # None) =>
             /\ Len(p) = 8
             /\ \A i \in 1..8 : p[i].ev # "fail"
       /\ (Len(p) > 0) =>
             instruction = <<"Find and analyze properties in ", "South Florida",
                             " for a rehab facility with a budget of $", "2000000",
                             " and at least ", "10", " bedrooms">>

C1_Witness == status = "done" /\ Len(EventsBy("pipeline")) = 8

\* C2: after a run that completes without failure the report file holds exactly
\* "Recommendation based on analysis: " followed by the string the pipeline
\* returned, and that is the value find_rehab_facility_property returned.
C2_ReportIsPrefixedResult ==
    (status = "done") =>
        /\ file = <<"Recommendation based on analysis: ">> \o result
        /\ recommendation = <<"Recommendation based on analysis: ">> \o result

C2_Witness == status = "done" /\ Len(result) >= 1 /\ file_at_start # << >>

\* C3: a successful run overwrites the report: the file then holds the
\* recommendation of that run and nothing of what it held before, also when
\* the earlier contents were longer.
C3_Overwrite ==
    (status = "done") =>
        /\ Len(file) = Len(recommendation)
        /\ \A i \in 1..Len(file) : file[i] = recommendation[i]

C3_Witness ==
    /\ status = "done"
    /\ prev.valid
    /\ file_at_start = prev.file
    /\ Len(prev.recommendation) > Len(recommendation)

\* C4: the four fan-out calls are executed by the workers of the concurrent
\* runner (so that they may interleave in any order).
C4_FanoutOnWorkers ==
    \A i \in 1..Len(trace) :
        (trace[i].by = "fanout") =>
            /\ concurrent_workflow.started
            /\ trace[i].thread = "worker"

\* C5: two runs that differ only in what the four fan-out calls returned give
\* the pipeline the same instruction, return the same recommendation and leave
\* the same report file.
C5_FanoutNotConsumed ==
    /\ (prev.valid /\ instruction # None) => instruction = prev.instruction
    /\ (prev.valid /\ status = "done" /\ result = prev.result) =>
          /\ recommendation = prev.recommendation
          /\ file = prev.file

C5_Witness ==
    /\ prev.valid
    /\ status = "done"
    /\ result = prev.result
    /\ \A i \in 1..4 : tasks[i] # prev.tasks[i]

\* C6: a failure propagates uncaught: every call is attempted at most once per
\* run, a failure is the last thing the run does, and nothing that comes later
\* in the program has happened.
C6_FailFast ==
    /\ \A i \in 1..Len(trace) :
          (trace[i].ev = "fail") => (i = Len(trace) /\ status = "failed")
    /\ Cardinality({trace[i] : i \in 1..Len(trace)}) = Len(trace)
    /\ \A i \in 1..Len(trace) :
          (trace[i].by # "main" /\ trace[i].ev # "start") =>
              /\ i > 1
              /\ trace[i - 1] = [trace[i] EXCEPT !.ev = "start"]
    /\ (status = "failed") =>
          /\ Len(trace) > 0
          /\ trace[Len(trace)].ev = "fail"
          /\ call = NoCall
          /\ (trace[Len(trace)].by \in {"fanout", "pipeline"}) =>
                /\ recommendation = None
                /\ stdout = << >>
                /\ file = file_at_start
          /\ (trace[Len(trace)].by = "fanout") =>
                /\ concurrent_workflow.tasks = << >>
                /\ EventsBy("pipeline") = << >>

C6_Witness ==
    /\ status = "failed"
    /\ trace[Len(trace)] = Event("fanout", "zoning", "fail")

Writes == Count(trace, LAMBDA e : e.op = "write")

\* C7 as stated: the report file is written at most once, after the pipeline has
\* returned and with no agent call in progress, and no other mutable object is
\* shared between the stages.
C7_NothingSharedButFile ==
    /\ Writes <= 1
    /\ fh.open => (call = NoCall /\ result # None)
    /\ \A s \in Stores : Cardinality(store_access[s]) <= 1

\* C7 amended: the report file is written at most once per run, only after the
\* pipeline has returned and with no agent call in progress; the long-term
\* memory store is one object used by all four agents.
C7_WrittenOnce ==
    /\ Writes <= 1
    /\ fh.open => (call = NoCall /\ result # None)
    /\ (file # file_at_start) => (call = NoCall /\ result # None)
    /\ (Writes = 1) => Count(trace, LAMBDA e : e.by = "pipeline" /\ e.ev = "return") = 4
    /\ (status = "done") => (Writes = 1 /\ \A s \in Stores : store_access[s] = Agents)

C7_Witness == status = "done" /\ Writes = 1 /\ file # file_at_start

\* C8: each stub, whatever it is called with, returns its one hard-coded record,
\* whose scores lie in 1..10; it has no error outcome and changes nothing else.
C8_StubsReturnFixedRecords ==
    /\ (tool_out.tool = "PropertySearchTool") =>
          /\ tool_out.value =
                << [address |-> "123 Palm Ave, Miami, FL", total_bedrooms |-> 15,
                    total_bathrooms |-> 10, common_areas |-> 3, price |-> 1800000,
                    square_footage |-> 5000, zoning_type |-> "Residential",
                    proximity_to_medical |-> "1.2", neighborhood_score |-> 8] >>
          /\ tool_out.value[1].neighborhood_score \in 1..10
    /\ (tool_out.tool = "ZoningAnalysisTool") =>
          tool_out.value =
              [allowed_use |-> TRUE, max_occupancy |-> 20,
               parking_requirements |-> "1 space per 4 beds",
               special_permits_needed |-> <<"Group Home Permit">>]
    /\ (tool_out.tool = "CommunityAssessmentTool") =>
          /\ tool_out.value =
                [crime_rate |-> "0.02", proximity_to_services |-> "1.5",
                 public_transport_score |-> 7, recovery_friendly_score |-> 8]
          /\ tool_out.value.public_transport_score \in 1..10
          /\ tool_out.value.recovery_friendly_score \in 1..10
    /\ (tool_out.tool = "FacilityPlanningTool") =>
          tool_out.value =
              [optimal_capacity |-> 20, estimated_renovation_cost |-> 250000,
               renovation_timeline_months |-> 6,
               key_features |-> <<"Group therapy room",
                                  "Individual counseling offices",
                                  "Meditation garden">>]
    /\ file = file_at_start
    /\ status = "running" /\ pc = 1 /\ trace = << >> /\ stdout = << >>
    /\ \A s \in Stores : store_access[s] = {}

C8_Witness ==
    /\ tool_in.tool = "PropertySearchTool"
    /\ tool_in.location = ""
    /\ tool_in.min_bedrooms = 0
    /\ tool_in.max_price = 0
    /\ tool_out.tool = "PropertySearchTool"

\* C9: a run whose sequential pipeline fails leaves the report file as it was:
\* the file is opened (and truncated) only after the pipeline has returned.
C9_FailedPipelineLeavesFile ==
    /\ (status = "failed" /\ trace[Len(trace)].by = "pipeline") =>
          file = file_at_start
    /\ (recommendation = None) => (file = file_at_start /\ ~fh.open)

C9_Witness ==
    /\ status = "failed"
    /\ trace[Len(trace)].by = "pipeline"
    /\ file_at_start # << >>

\* C10: the four fan-out calls are made while the task list is built, one after
\* another in the order search, zoning, community, planning; all four have
\* returned before the first pipeline stage starts; a complete run has run each
\* agent twice, first in the fan-out and then in the pipeline.
C10_FanoutBeforePipeline ==
    LET f == EventsBy("fanout")
    IN /\ InStageOrder(f)
       /\ \A j \in 1..Len(f) : trace[j] = f[j] /\ f[j].thread = "main"
       /\ (Len(trace) > Len(f)) =>
             /\ Len(f) = 8
             /\ f[8].ev = "return"
             /\ trace[9].op = "add"
       /\ (status = "done") =>
             \A a \in Agents :
                 /\ Count(trace, LAMBDA e : e.op = a /\ e.ev = "start") = 2
                 /\ Count(f, LAMBDA e : e.op = a /\ e.ev = "start") = 1

C10_Witness ==
    /\ status = "done"
    /\ Len(EventsBy("fanout")) = 8
    /\ Len(EventsBy("pipeline")) = 8

====
